---------------------------- MODULE Spec2Model ----------------------------
(***************************************************************************)
(* Model of src/src/git_training_wheels/server.py: the two tools           *)
(* git_commit (create-commit) and fixup_commit (amend-commit), the retry   *)
(* executor run_git_command_with_retry, and the git repository they act    *)
(* on.                                                                     *)
(*                                                                         *)
(* A commit identity is content-addressed: it is modelled as the sequence  *)
(* of the entries [tree, msg, author] of the commit and all its ancestors, *)
(* root first, so that two commits are equal exactly when parent, tree,    *)
(* message and author are equal.  Committer time is not represented.       *)
(* A tree maps every path of Files to a content version 0, 1 or 2, where   *)
(* 0 means that the path is absent.                                        *)
(*                                                                         *)
(* The gitrevise calls (get_commit, update, commit_range, rebase) are      *)
(* modelled by the contract that their call sites in fixup_commit rely on. *)
(***************************************************************************)
EXTENDS Integers, Sequences, FiniteSets, TLC

\* ------------------------------------------------------------- bounds
MaxChain == 3
MaxCalls == 3

Files == {"f", "g"}
\* the git identity of the server process and the one of the user
ToolAuthor == "ann"
UserAuthor == "bob"
\* the contents a path has on disk when it is staged, and the message of a
\* commit the user makes by hand
DiskContents == 1..2
UserMsg == <<"a", "b">>
\* the values of the files argument of a tool call
FileArgs == { {"f"}, {"g"} }
\* commit messages, as character sequences: "ab" and "a[b]"
Msgs == { <<"a", "b">>, <<"a", "[", "b", "]">> }

EmptyTree == [f \in Files |-> 0]
NoCommit == <<>>

\* ------------------------------------------------------------- retry executor
MAX_RETRIES == 5
\* delays in milliseconds
INITIAL_BACKOFF == 500
MAX_BACKOFF == 10000

\* The text of a failed attempt is a sequence of words; a signature is one
\* word.  With an empty stderr, str(e) is inspected instead.
Phrases == {"another git process", "index.lock", "unable to create",
            "resource temporarily unavailable", "cannot lock ref"}

Lower(w) ==
    CASE w = "Index.Lock" -> "index.lock"
      [] w = "Unable To Create" -> "unable to create"
      [] w = "Fatal:" -> "fatal:"
      [] OTHER -> w

\* line 43: e.stderr.lower() if e.stderr else str(e).lower()
ErrorMsg(e) ==
    LET text == IF e.stderr # <<>> THEN e.stderr ELSE e.str
    IN  { Lower(text[i]) : i \in DOMAIN text }

\* lines 46-52: any(phrase in error_msg for phrase in [...])
IsConcurrencyErrorMut(e) == "index.lock" \in ErrorMsg(e)

IsConcurrencyError(e) == \E phrase \in Phrases : phrase \in ErrorMsg(e)

MinNum(a, b) == IF a < b THEN a ELSE b

\* line 57
NextBackoff(backoff) == MinNum(backoff * 2, MAX_BACKOFF)

RetryAllowedMut(attempt) == attempt < MAX_RETRIES

\* line 53
RetryAllowed(attempt) == attempt < MAX_RETRIES - 1

\* One attempt's outcome: [ok, stderr, str]; outs holds MAX_RETRIES of them.
\* The loop of lines 37-61 over the outcomes outs[attempt+1], ...: the result
\* records whether a result was returned, the number of subprocess.run calls,
\* the delays slept, and the error raised (if any).
RECURSIVE RetryLoop(_, _, _, _)
RetryLoop(outs, attempt, backoff, sleeps) ==
    IF attempt >= MAX_RETRIES
    THEN [ok |-> FALSE, attempts |-> attempt, sleeps |-> sleeps,
          raised |-> "last_error", index |-> attempt]
    ELSE LET o == outs[attempt + 1] IN
         IF o.ok
         THEN [ok |-> TRUE, attempts |-> attempt + 1, sleeps |-> sleeps,
               raised |-> "none", index |-> attempt + 1]
         ELSE IF IsConcurrencyError(o) /\ RetryAllowed(attempt)
              THEN RetryLoop(outs, attempt + 1, NextBackoff(backoff),
                             Append(sleeps, backoff))
              ELSE [ok |-> FALSE, attempts |-> attempt + 1, sleeps |-> sleeps,
                    raised |-> "CalledProcessError", index |-> attempt + 1]

run_git_command_with_retryMut(outs) == RetryLoop(outs, 1, INITIAL_BACKOFF, <<>>)

\* lines 34-64
run_git_command_with_retry(outs) == RetryLoop(outs, 0, INITIAL_BACKOFF, <<>>)

\* What the backend answers on each attempt: "go" (git runs the command),
\* "lock" (another process holds the lock), "fatal" (any other failure).
OkOut == [ok |-> TRUE, stderr |-> <<>>, str |-> <<>>]
LockOut == [ok |-> FALSE, stderr |-> <<"Fatal:", "Unable To Create", "Index.Lock">>,
            str |-> <<"exit", "128">>]
FatalOut == [ok |-> FALSE, stderr |-> <<"Fatal:", "bad", "revision">>,
             str |-> <<"exit", "128">>]

Envs == { <<"go", "go", "go", "go", "go">>,
          <<"lock", "go", "go", "go", "go">>,
          <<"lock", "lock", "lock", "lock", "lock">>,
          <<"fatal", "go", "go", "go", "go">> }

\* The outcomes of the attempts of one invocation: where git runs, the command
\* succeeds iff `can` (its precondition in the current repository state).
Outs(env, can) ==
    [i \in 1..MAX_RETRIES |->
        IF env[i] = "lock" THEN LockOut
        ELSE IF env[i] = "go" /\ can THEN OkOut ELSE FatalOut]

\* TRUE iff run_git_command_with_retry returns a result (does not raise)
GitOk(env, can) == run_git_command_with_retry(Outs(env, can)).ok

\* ------------------------------------------------------------- commits
Last(c) == c[Len(c)]
Parent(c) == SubSeq(c, 1, Len(c) - 1)
Prefix(c, n) == SubSeq(c, 1, n)
TreeOf(c) == IF c = NoCommit THEN EmptyTree ELSE Last(c).tree
\* c and all its ancestors
Ancestry(c) == { Prefix(c, n) : n \in 1..Len(c) }
IsAncestorOrSelf(a, c) == Len(a) <= Len(c) /\ Prefix(c, Len(a)) = a
MaxOf(S) == CHOOSE x \in S : \A y \in S : y <= x

\* git commit: the index as a new commit on top of parent
NewCommit(parent, tree, msg, author) ==
    Append(parent, [tree |-> tree, msg |-> msg, author |-> author])

\* git add files: the on-disk content w of the paths replaces their index entry
Staged(idx, w) == [f \in Files |-> IF f \in DOMAIN w THEN w[f] ELSE idx[f]]

\* git add fails on a path that is neither on disk nor in the index
CanAdd(idx, w) == \A f \in DOMAIN w : w[f] # 0 \/ idx[f] # 0

\* line 146: git log --grep "^<message>$": the message is used as a basic
\* regular expression ("." any character, "[...]" a bracket expression)
\* anchored at both ends of the line.
RECURSIVE BreMatch(_, _)
BreMatch(p, s) ==
    IF p = <<>> THEN s = <<>>
    ELSE IF s = <<>> THEN FALSE
    ELSE IF Head(p) = "[" /\ \E k \in 3..Len(p) : p[k] = "]"
    THEN LET k == CHOOSE k \in 3..Len(p) :
                      p[k] = "]" /\ \A j \in 3..(k - 1) : p[j] # "]"
         IN  /\ Head(s) \in { p[j] : j \in 2..(k - 1) }
             /\ BreMatch(SubSeq(p, k + 1, Len(p)), Tail(s))
    ELSE IF Head(p) = "."
    THEN BreMatch(Tail(p), Tail(s))
    ELSE Head(s) = Head(p) /\ BreMatch(Tail(p), Tail(s))

GrepMatches(pattern, msg) == BreMatch(pattern, msg)

\* lines 145-152: the positions in tip's chain whose message matches
LogMatches(tip, message) ==
    { i \in 1..Len(tip) : GrepMatches(message, tip[i].msg) }

\* ------------------------------------------------------------- gitrevise
UpdateTreeMut(c, tree) == << [Last(c) EXCEPT !.tree = tree] >>

\* line 165: target.update(tree=...): same parent, message and author
UpdateTree(c, tree) == Append(Parent(c), [Last(c) EXCEPT !.tree = tree])

\* three-way merge of one path: base is the original parent's version, cur the
\* new parent's, other the commit's own
MergeConflict(base, cur, other) == cur # other /\ cur # base /\ other # base
MergeFile(base, cur, other) == IF cur = base THEN other ELSE cur

\* line 190: commit.rebase(base) cannot be applied
RebaseConflicts(c, newparent) ==
    /\ Parent(c) # newparent
    /\ \E f \in Files :
          MergeConflict(TreeOf(Parent(c))[f], TreeOf(newparent)[f], TreeOf(c)[f])

\* line 190: commit.rebase(base): the commit's own change replayed on newparent
Rebase(c, newparent) ==
    IF Parent(c) = newparent THEN c
    ELSE NewCommit(newparent,
                   [f \in Files |-> MergeFile(TreeOf(Parent(c))[f],
                                              TreeOf(newparent)[f], TreeOf(c)[f])],
                   Last(c).msg, Last(c).author)

\* commit_range(repo, base, tip) raises: a ref does not resolve, or base is not
\* reached walking the parents of tip
RangeRaises(base, tip) ==
    base = NoCommit \/ tip = NoCommit \/ ~IsAncestorOrSelf(base, tip)

CommitRangeMut(base, tip) ==
    [i \in 1..(Len(tip) - Len(base) + 1) |-> Prefix(tip, Len(base) + i - 1)]

\* commit_range(repo, base, tip): the commits after base up to tip, oldest first
CommitRange(base, tip) ==
    [i \in 1..(Len(tip) - Len(base)) |-> Prefix(tip, Len(base) + i)]

ReplaceTargetMut(commits, target, new_commit) == commits

\* lines 177-180: the first commit of the list equal to target is replaced
ReplaceTarget(commits, target, new_commit) ==
    IF \E i \in DOMAIN commits : commits[i] = target
    THEN LET i == CHOOSE i \in DOMAIN commits :
                     commits[i] = target /\ \A j \in 1..(i - 1) : commits[j] # target
         IN  [commits EXCEPT ![i] = new_commit]
    ELSE commits

\* lines 188-191: the fold; base = NoCommit stands for None
RECURSIVE RebaseAll(_, _)
RebaseAll(commits, base) ==
    IF commits = <<>> THEN [ok |-> TRUE, base |-> base]
    ELSE IF base # NoCommit /\ RebaseConflicts(Head(commits), base)
    THEN [ok |-> FALSE, base |-> base]
    ELSE RebaseAll(Tail(commits),
                   IF base # NoCommit THEN Rebase(Head(commits), base)
                   ELSE Head(commits))

\* lines 165-191: [ok, base]; ok = FALSE when an exception leaves the block
Rewrite(target, new_tree, tip) ==
    LET new_commit == UpdateTree(target, new_tree)
        base_commit == Parent(target)
        is_root == RangeRaises(base_commit, tip)
    IN  IF is_root /\ RangeRaises(target, tip)
        THEN [ok |-> FALSE, base |-> NoCommit]
        ELSE LET commits == IF is_root THEN CommitRange(target, tip)
                            ELSE CommitRange(base_commit, tip)
                 base == IF is_root THEN NoCommit ELSE base_commit
                 r == RebaseAll(ReplaceTarget(commits, target, new_commit), base)
             IN  IF r.ok /\ r.base = NoCommit
                 THEN [ok |-> FALSE, base |-> NoCommit]
                 ELSE r

\* ------------------------------------------------------------- state
VARIABLES
    objects,          \* the commit objects of the object store
    trees,            \* the tree objects of the object store
    head,             \* the branch tip (NoCommit in an empty repository)
    index,            \* the staging index
    last_commit_info, \* line 13
    pc,               \* position of the running tool call, "idle" between calls
    op,               \* the tool of the running (or last) call
    files, message,   \* the arguments of the running call
    saved_hash, saved_message, head_hash, target_commit, new_tree_oid, base,
    report,           \* the kind of text the last call returned
    calls,            \* number of tool calls so far
    pre,              \* repository and memory when the running call started
    staged,           \* on-disk content that the call's git add read
    trail,            \* the successful calls since the last create-commit
    ex_outs,          \* executor alone: the outcomes of the attempts
    ex_res            \* executor alone: what run_git_command_with_retry did

repo == <<objects, trees, head, index>>
args == <<op, files, message>>
exec == <<ex_outs, ex_res>>
locals == <<saved_hash, saved_message, head_hash, target_commit, new_tree_oid, base>>
vars == <<objects, trees, head, index, last_commit_info, pc, op, files,
          message, saved_hash, saved_message, head_hash, target_commit,
          new_tree_oid, base, report, calls, pre, staged, trail, ex_outs, ex_res>>

NoInfo == [set |-> FALSE, hash |-> NoCommit, message |-> <<>>]
EmptyW == [f \in {} |-> 0]
Snapshot == [head |-> head, index |-> index, objects |-> objects,
             trees |-> trees, info |-> last_commit_info]

NoSnapshot == [head |-> NoCommit, index |-> EmptyTree, objects |-> {},
               trees |-> {}, info |-> NoInfo]

NoRes == [ok |-> FALSE, attempts |-> 0, sleeps |-> <<>>, raised |-> "none",
          index |-> 0]

\* the state when the server module has been loaded, in a new repository
InitServer ==
    /\ objects = {}
    /\ trees = {}
    /\ head = NoCommit
    /\ index = EmptyTree
    /\ last_commit_info = NoInfo
    /\ pc = "idle"
    /\ op = "none"
    /\ files = {}
    /\ message = <<>>
    /\ saved_hash = NoCommit
    /\ saved_message = <<>>
    /\ head_hash = NoCommit
    /\ target_commit = NoCommit
    /\ new_tree_oid = EmptyTree
    /\ base = NoCommit
    /\ report = "none"
    /\ calls = 0
    /\ pre = NoSnapshot
    /\ staged = EmptyW
    /\ trail = <<>>

Init ==
    /\ InitServer
    /\ ex_outs = <<>>
    /\ ex_res = NoRes

ResetLocals ==
    /\ saved_hash' = NoCommit
    /\ saved_message' = <<>>
    /\ head_hash' = NoCommit
    /\ target_commit' = NoCommit
    /\ new_tree_oid' = EmptyTree
    /\ base' = NoCommit

\* The kinds of text a tool call returns.
TextReports == {"committed", "commit_failed", "usage", "amended", "edited",
                "not_found", "fixup_failed", "error"}

ExceptReportMut(tool, exc) ==
    IF exc = "CalledProcessError"
    THEN IF tool = "git_commit" THEN "commit_failed" ELSE "fixup_failed"
    ELSE "escaped"

\* lines 98-102 and 198-204: the except clauses of the two tools, tried in
\* order: the report that an exception of class exc raised in the try block
\* becomes (the ImportError and the Exception clause both give an "Error: ..."
\* text)
ExceptReport(tool, exc) ==
    IF exc = "CalledProcessError"
    THEN IF tool = "git_commit" THEN "commit_failed" ELSE "fixup_failed"
    ELSE "error"

\* the call returns the report r; a failure breaks the trail
Return(r, tip) ==
    /\ pc' = "idle"
    /\ report' = r
    /\ trail' = IF r = "committed"
                THEN << [op |-> "create", w |-> staged, at |-> Len(tip)] >>
                ELSE IF r \in {"amended", "edited"} /\ trail # <<>>
                THEN Append(trail, [op |-> "amend", w |-> staged, at |-> Len(tip)])
                ELSE <<>>

\* ------------------------------------------------------------- git_commit
\* line 67: git_commit(files, message) is called
CallGitCommit ==
    /\ pc = "idle"
    /\ calls < MaxCalls
    /\ Len(head) < MaxChain
    /\ op' = "git_commit"
    /\ \E fs \in FileArgs, m \in Msgs :
          /\ files' = fs
          /\ message' = m
    /\ pc' = "gc_add"
    /\ calls' = calls + 1
    /\ pre' = Snapshot
    /\ staged' = EmptyW
    /\ report' = "none"
    /\ ResetLocals
    /\ UNCHANGED <<repo, last_commit_info, trail>>
    /\ UNCHANGED exec

\* line 80: git add files
GcAdd ==
    /\ pc = "gc_add"
    /\ \E env \in Envs, w \in [files -> DiskContents] :
          /\ staged' = w
          /\ IF GitOk(env, CanAdd(index, w))
             THEN /\ index' = Staged(index, w)
                  /\ pc' = "gc_commit"
                  /\ UNCHANGED <<report, trail>>
             ELSE /\ index' = index
                  /\ Return(ExceptReport("git_commit", "CalledProcessError"), head)
    /\ UNCHANGED <<objects, trees, head, last_commit_info, args, locals, calls, pre>>
    /\ UNCHANGED exec

\* line 83: git commit -m message
GcCommit ==
    /\ pc = "gc_commit"
    /\ \E env \in Envs :
          IF GitOk(env, index # TreeOf(head))
          THEN /\ head' = NewCommit(head, index, message, ToolAuthor)
               /\ objects' = objects \cup {head'}
               /\ trees' = trees \cup {index}
               /\ pc' = "gc_revparse"
               /\ UNCHANGED <<report, trail>>
          ELSE /\ UNCHANGED <<head, objects, trees>>
               /\ Return(ExceptReport("git_commit", "CalledProcessError"), head)
    /\ UNCHANGED <<index, last_commit_info, args, locals, calls, pre, staged>>
    /\ UNCHANGED exec

RecordInfoMut(old, hash, msg) ==
    IF old.set THEN old ELSE [set |-> TRUE, hash |-> hash, message |-> msg]

\* lines 91-94: last_commit_info = {"hash": ..., "message": ...}
RecordInfo(old, hash, msg) == [set |-> TRUE, hash |-> hash, message |-> msg]

\* lines 86-96: git rev-parse HEAD, then the memory is overwritten
GcRevParse ==
    /\ pc = "gc_revparse"
    /\ \E env \in Envs :
          IF GitOk(env, head # NoCommit)
          THEN /\ last_commit_info' = RecordInfo(last_commit_info, head, message)
               /\ Return("committed", head)
          ELSE /\ UNCHANGED last_commit_info
               /\ Return(ExceptReport("git_commit", "CalledProcessError"), head)
    /\ UNCHANGED <<repo, args, locals, calls, pre, staged>>
    /\ UNCHANGED exec

\* ------------------------------------------------------------- fixup_commit
HasSavedCommitMut(info) == TRUE

\* line 120: if not last_commit_info
HasSavedCommit(info) == info.set

\* lines 105-124: fixup_commit(files) is called
CallFixupCommit ==
    /\ pc = "idle"
    /\ calls < MaxCalls
    /\ calls' = calls + 1
    /\ pre' = Snapshot
    /\ staged' = EmptyW
    /\ op' = "fixup_commit"
    /\ message' = <<>>
    /\ \E fs \in FileArgs : files' = fs
    /\ head_hash' = NoCommit
    /\ target_commit' = NoCommit
    /\ new_tree_oid' = EmptyTree
    /\ base' = NoCommit
    /\ IF ~HasSavedCommit(last_commit_info)
       THEN /\ saved_hash' = NoCommit
            /\ saved_message' = <<>>
            /\ Return("usage", head)
       ELSE /\ saved_hash' = last_commit_info.hash
            /\ saved_message' = last_commit_info.message
            /\ pc' = "fx_head"
            /\ report' = "none"
            /\ UNCHANGED trail
    /\ UNCHANGED <<repo, last_commit_info>>
    /\ UNCHANGED exec

\* lines 127-128: git rev-parse HEAD
FxHead ==
    /\ pc = "fx_head"
    /\ \E env \in Envs :
          IF GitOk(env, head # NoCommit)
          THEN /\ head_hash' = head
               /\ pc' = "fx_add"
               /\ UNCHANGED <<report, trail>>
          ELSE /\ UNCHANGED head_hash
               /\ Return(ExceptReport("fixup_commit", "CalledProcessError"), head)
    /\ UNCHANGED <<repo, last_commit_info, args, saved_hash, saved_message,
                   target_commit, new_tree_oid, base, calls, pre, staged>>
    /\ UNCHANGED exec

\* lines 131-133: git add files, then the choice of the path
FxAdd ==
    /\ pc = "fx_add"
    /\ \E env \in Envs, w \in [files -> DiskContents] :
          /\ staged' = w
          /\ IF GitOk(env, CanAdd(index, w))
             THEN /\ index' = Staged(index, w)
                  /\ pc' = IF saved_hash = head_hash THEN "fx_amend" ELSE "fx_verify"
                  /\ UNCHANGED <<report, trail>>
             ELSE /\ index' = index
                  /\ pc' = "idle"
                  /\ report' = ExceptReport("fixup_commit", "CalledProcessError")
                  /\ trail' = <<>>
    /\ UNCHANGED <<objects, trees, head, last_commit_info, args, locals, calls, pre>>
    /\ UNCHANGED exec

AmendedMut(tip, idx) == NewCommit(tip, idx, Last(tip).msg, Last(tip).author)

\* git commit --amend --no-edit: the tip with the index as its tree
Amended(tip, idx) == UpdateTree(tip, idx)

FxAmendMut ==
    /\ pc = "fx_amend"
    /\ \E env \in Envs :
          IF GitOk(env, head # NoCommit /\ index # TreeOf(Parent(head)))
          THEN /\ head' = Amended(head, index)
               /\ objects' = objects \cup {head'}
               /\ trees' = trees \cup {index}
               /\ last_commit_info' = [last_commit_info EXCEPT !.hash = head']
               /\ Return("amended", head')
          ELSE /\ UNCHANGED <<head, objects, trees, last_commit_info>>
               /\ Return(ExceptReport("fixup_commit", "CalledProcessError"), head)
    /\ UNCHANGED <<index, args, locals, calls, pre, staged>>
    /\ UNCHANGED exec

\* lines 135-136: git commit --amend --no-edit
FxAmend ==
    /\ pc = "fx_amend"
    /\ \E env \in Envs :
          IF GitOk(env, head # NoCommit /\ index # TreeOf(Parent(head)))
          THEN /\ head' = Amended(head, index)
               /\ objects' = objects \cup {head'}
               /\ trees' = trees \cup {index}
               /\ Return("amended", head')
          ELSE /\ UNCHANGED <<head, objects, trees>>
               /\ Return(ExceptReport("fixup_commit", "CalledProcessError"), head)
    /\ UNCHANGED <<index, last_commit_info, args, locals, calls, pre, staged>>
    /\ UNCHANGED exec

\* lines 140-143: git rev-parse saved_hash^{commit}
FxVerify ==
    /\ pc = "fx_verify"
    /\ \E env \in Envs :
          IF GitOk(env, saved_hash \in objects)
          THEN /\ target_commit' = saved_hash
               /\ pc' = "fx_tree"
          ELSE /\ UNCHANGED target_commit
               /\ pc' = "fx_log"
    /\ UNCHANGED <<repo, last_commit_info, args, saved_hash, saved_message,
                   head_hash, new_tree_oid, base, report, calls, pre, staged, trail>>
    /\ UNCHANGED exec

\* lines 145-152: git log --oneline --grep ^saved_message$
FxLog ==
    /\ pc = "fx_log"
    /\ \E env \in Envs :
          IF ~GitOk(env, head # NoCommit)
          THEN /\ UNCHANGED target_commit
               /\ Return(ExceptReport("fixup_commit", "CalledProcessError"), head)
          ELSE IF LogMatches(head, saved_message) = {}
          THEN /\ UNCHANGED target_commit
               /\ Return("not_found", head)
          ELSE /\ target_commit' = Prefix(head, MaxOf(LogMatches(head, saved_message)))
               /\ pc' = "fx_tree"
               /\ UNCHANGED <<report, trail>>
    /\ UNCHANGED <<repo, last_commit_info, args, saved_hash, saved_message,
                   head_hash, new_tree_oid, base, calls, pre, staged>>
    /\ UNCHANGED exec

\* lines 155-162: the target is loaded and git write-tree writes the index
FxTree ==
    /\ pc = "fx_tree"
    /\ \E env \in Envs :
          IF GitOk(env, TRUE)
          THEN /\ new_tree_oid' = index
               /\ trees' = trees \cup {index}
               /\ pc' = "fx_fold"
               /\ UNCHANGED <<report, trail>>
          ELSE /\ UNCHANGED <<new_tree_oid, trees>>
               /\ Return(ExceptReport("fixup_commit", "CalledProcessError"), head)
    /\ UNCHANGED <<objects, head, index, last_commit_info, args, saved_hash,
                   saved_message, head_hash, target_commit, base, calls, pre, staged>>
    /\ UNCHANGED exec

FoldCompletesMut(r) == TRUE

\* lines 165-191 and 203: an exception raised in the block ends the call
FoldCompletes(r) == r.ok

\* lines 165-191: the chain is rebuilt in memory on the replaced target
FxFold ==
    /\ pc = "fx_fold"
    /\ LET r == Rewrite(target_commit, new_tree_oid, head) IN
          IF FoldCompletes(r)
          THEN /\ base' = r.base
               /\ pc' = "fx_publish"
               /\ UNCHANGED <<report, trail>>
          ELSE /\ UNCHANGED base
               /\ Return(ExceptReport("fixup_commit", "Exception"), head)
    /\ UNCHANGED <<repo, last_commit_info, args, saved_hash, saved_message,
                   head_hash, target_commit, new_tree_oid, calls, pre, staged>>
    /\ UNCHANGED exec

\* lines 194-196: git reset --hard base
FxPublish ==
    /\ pc = "fx_publish"
    /\ \E env \in Envs :
          IF GitOk(env, TRUE)
          THEN /\ head' = base
               /\ index' = TreeOf(base)
               /\ objects' = objects \cup Ancestry(base)
               /\ trees' = trees \cup { TreeOf(c) : c \in Ancestry(base) }
               /\ Return("edited", base)
          ELSE /\ UNCHANGED repo
               /\ Return(ExceptReport("fixup_commit", "CalledProcessError"), head)
    /\ UNCHANGED <<last_commit_info, args, locals, calls, pre, staged>>
    /\ UNCHANGED exec

\* ------------------------------------------------------------- environment
\* Between two tool calls the user commits a change of one path by hand.
UserCommit ==
    /\ pc = "idle"
    /\ Len(head) < MaxChain
    /\ \E f \in Files, v \in DiskContents :
          /\ [index EXCEPT ![f] = v] # TreeOf(head)
          /\ index' = [index EXCEPT ![f] = v]
          /\ head' = NewCommit(head, index', UserMsg, UserAuthor)
          /\ objects' = objects \cup {head'}
          /\ trees' = trees \cup {index'}
    /\ report' = "none"
    /\ trail' = <<>>
    /\ staged' = EmptyW
    /\ ResetLocals
    /\ op' = "none"
    /\ files' = {}
    /\ message' = <<>>
    /\ pre' = NoSnapshot
    /\ UNCHANGED <<last_commit_info, pc, calls>>
    /\ UNCHANGED exec

\* Between two tool calls the objects unreachable from the tip are pruned.
Prune ==
    /\ pc = "idle"
    /\ objects # Ancestry(head)
    /\ objects' = Ancestry(head)
    /\ trees' = { TreeOf(c) : c \in Ancestry(head) }
    /\ report' = "none"
    /\ trail' = <<>>
    /\ staged' = EmptyW
    /\ ResetLocals
    /\ op' = "none"
    /\ files' = {}
    /\ message' = <<>>
    /\ pre' = NoSnapshot
    /\ UNCHANGED <<head, index, last_commit_info, pc, calls>>
    /\ UNCHANGED exec

Next ==
    \/ CallGitCommit
    \/ GcAdd
    \/ GcCommit
    \/ GcRevParse
    \/ CallFixupCommit
    \/ FxHead
    \/ FxAdd
    \/ FxAmend
    \/ FxVerify
    \/ FxLog
    \/ FxTree
    \/ FxFold
    \/ FxPublish
    \/ UserCommit
    \/ Prune

Spec == Init /\ [][Next]_vars

\* The statements of a running tool call: the interpreter runs the next one as
\* soon as the previous one has ended, and every backend invocation ends
\* (lines 37-64 make at most MAX_RETRIES attempts).
ToolStep ==
    \/ GcAdd
    \/ GcCommit
    \/ GcRevParse
    \/ FxHead
    \/ FxAdd
    \/ FxAmend
    \/ FxVerify
    \/ FxLog
    \/ FxTree
    \/ FxFold
    \/ FxPublish

SpecLive == Init /\ [][Next]_vars /\ WF_vars(ToolStep)

\* ------------------------------------------------------------- another process
\* While fixup_commit is between line 170, where commit_range has read HEAD,
\* and line 194, another process commits a change of one path in the same
\* repository.  Nothing in lines 167-194 reads HEAD again.
ConcurrentCommit ==
    /\ pc = "fx_publish"
    /\ head = pre.head
    /\ Len(head) < MaxChain
    /\ \E f \in Files, v \in DiskContents :
          /\ [index EXCEPT ![f] = v] # TreeOf(head)
          /\ index' = [index EXCEPT ![f] = v]
          /\ head' = NewCommit(head, index', UserMsg, UserAuthor)
          /\ objects' = objects \cup {head'}
          /\ trees' = trees \cup {index'}
    /\ UNCHANGED <<last_commit_info, pc, args, locals, report, calls, pre,
                   staged, trail>>
    /\ UNCHANGED exec

NextConc ==
    \/ Next
    \/ ConcurrentCommit

SpecConc == Init /\ [][NextConc]_vars

\* ------------------------------------------------------------- executor alone
\* stderr is empty: the text inspected is str(e)
QuietOut == [ok |-> FALSE, stderr |-> <<>>, str |-> <<"exit", "1">>]
RefLockOut == [ok |-> FALSE, stderr |-> <<"Fatal:", "cannot lock ref">>,
               str |-> <<"exit", "128">>]
AttemptOutcomes == {OkOut, LockOut, RefLockOut, FatalOut, QuietOut}

InitExec ==
    /\ InitServer
    /\ ex_outs \in [1..MAX_RETRIES -> AttemptOutcomes]
    /\ ex_res = NoRes

\* lines 20-64: one call of run_git_command_with_retry
Execute ==
    /\ ex_res = NoRes
    /\ ex_res' = run_git_command_with_retry(ex_outs)
    /\ UNCHANGED <<repo, last_commit_info, pc, args, locals, report, calls, pre,
                   staged, trail, ex_outs>>

NextExec == Execute

SpecExec == InitExec /\ [][NextExec]_vars

\* ------------------------------------------------------------- properties
Failures == {"fixup_failed", "not_found", "error"}
RewritePcs == {"fx_verify", "fx_log", "fx_tree", "fx_fold", "fx_publish"}

\* the remembered commit is a non-root ancestor of the tip the call started
\* with, at least one commit behind it
RememberedBehind ==
    /\ Len(saved_hash) >= 2
    /\ IsAncestorOrSelf(saved_hash, pre.head)
    /\ saved_hash # pre.head

TrailTarget == Prefix(head, trail[1].at)

\* C2: after create-commit, amend-commit, amend-commit, all successful and
\* with nothing in between, the target reachable from the tip holds the
\* content staged by the first amend and the content staged by the second.
C2_BothAmendsTakeEffect ==
    (pc = "idle" /\ Len(trail) = 3)
        => /\ \A f \in DOMAIN trail[3].w : TreeOf(TrailTarget)[f] = trail[3].w[f]
           /\ \A f \in DOMAIN trail[2].w \ DOMAIN trail[3].w :
                 TreeOf(TrailTarget)[f] = trail[2].w[f]

\* C3: when the remembered identity equals the tip that amend-commit read,
\* the call takes the fast path, never the rewrite path, and after success
\* the new tip has the old tip's parent and the branch has as many commits.
C3_FastPath ==
    (op = "fixup_commit" /\ head_hash # NoCommit /\ saved_hash = head_hash)
        => /\ pc \notin RewritePcs
           /\ report # "edited"
           /\ (pc = "idle" /\ report = "amended")
                 => /\ Parent(head) = Parent(pre.head)
                    /\ Len(head) = Len(pre.head)

C3_Witness ==
    /\ pc = "idle" /\ report = "amended" /\ saved_hash = head_hash
    /\ head # pre.head
    /\ Len(head) >= 2

\* C4: when the remembered commit is the root and not the tip, a successful
\* amend-commit leaves a root commit that has the staged snapshot.
C4_RootReplaced ==
    (/\ pc = "idle" /\ report = "edited"
     /\ Len(saved_hash) = 1
     /\ target_commit = saved_hash
     /\ IsAncestorOrSelf(saved_hash, pre.head)
     /\ saved_hash # pre.head
     /\ \E f \in DOMAIN staged : staged[f] # TreeOf(saved_hash)[f])
        => TreeOf(Prefix(head, 1)) = new_tree_oid

\* C5: on the rewrite path the branch pointer moves only in the publish step
\* that ends the call with success; a call that ends anywhere else on that
\* path, or whose fold fails, returns a failure report and leaves the branch
\* pointer where it was before the call.
C5_SinglePublish ==
    [][ (pc \in RewritePcs)
          => /\ (head' # head) => (pc = "fx_publish" /\ report' = "edited")
             /\ (pc' = "idle" /\ report' # "edited")
                   => (report' \in Failures /\ head' = pre.head)
             /\ (pc = "fx_fold"
                 /\ ~Rewrite(target_commit, new_tree_oid, head).ok)
                   => (pc' = "idle" /\ report' \in Failures /\ head' = pre.head)
      ]_vars

C5_Witness ==
    /\ pc = "idle" /\ report = "error"
    /\ target_commit # NoCommit
    /\ IsAncestorOrSelf(target_commit, head)
    /\ Len(target_commit) >= 2
    /\ head = pre.head

\* C6: after a create-commit that reports success the memory holds the
\* identity of the new tip and the message passed, whatever it held before.
C6_MemoryRecorded ==
    (pc = "idle" /\ report = "committed")
        => last_commit_info = [set |-> TRUE, hash |-> head, message |-> message]

C6_Witness ==
    /\ pc = "idle" /\ report = "committed"
    /\ pre.info.set
    /\ pre.info.message # message

\* C7: amend-commit called with an empty memory returns the usage error at
\* once: no backend step is taken and index, object store and branch pointer
\* are unchanged.
C7_EmptyMemoryUsageError ==
    [][ (calls' = calls + 1 /\ op' = "fixup_commit" /\ ~last_commit_info.set)
          => (pc' = "idle" /\ report' = "usage" /\ repo' = repo) ]_vars

C7_Witness ==
    /\ pc = "idle" /\ report = "usage" /\ op = "fixup_commit"
    /\ head # NoCommit

\* the attempt failed and its stderr holds "index.lock" in some letter case
HasIndexLock(o) ==
    ~o.ok /\ \E i \in DOMAIN o.stderr : Lower(o.stderr[i]) = "index.lock"
AllIndexLock == \A i \in 1..MAX_RETRIES : HasIndexLock(ex_outs[i])
Executed == ex_res # NoRes

\* C8 (as claimed): when every attempt fails with "index.lock" in its text,
\* the executor makes 5 attempts and sleeps 0.5, 1, 2, 4 and 8 seconds before
\* the failure propagates.
C8_FiveSleeps ==
    (Executed /\ AllIndexLock)
        => /\ ~ex_res.ok
           /\ ex_res.attempts = 5
           /\ ex_res.sleeps = <<500, 1000, 2000, 4000, 8000>>

\* C8 (amended): when every attempt fails with "index.lock" in its text, the
\* executor makes 5 attempts and sleeps 0.5, 1, 2 and 4 seconds, once between
\* two attempts and not after the last, before the failure propagates.
C8_FourSleeps ==
    (Executed /\ AllIndexLock)
        => /\ ~ex_res.ok
           /\ ex_res.raised = "CalledProcessError"
           /\ ex_res.attempts = 5
           /\ ex_res.sleeps = <<500, 1000, 2000, 4000>>

C8_Witness == Executed /\ AllIndexLock

\* texts that hold a transient-lock signature, and texts that hold none
TransientText(o) == o \in {LockOut, RefLockOut}
UnrelatedText(o) == o \in {FatalOut, QuietOut}

\* C9: a failure whose text matches no transient-lock signature propagates at
\* once, on the first attempt or after k-1 retried transient failures: that
\* attempt is the last one and no sleep follows it.
C9_UnrelatedFailurePropagates ==
    Executed =>
        \A k \in 1..MAX_RETRIES :
            (/\ \A j \in 1..(k - 1) : TransientText(ex_outs[j])
             /\ UnrelatedText(ex_outs[k]))
                => /\ ~ex_res.ok
                   /\ ex_res.raised = "CalledProcessError"
                   /\ ex_res.attempts = k
                   /\ Len(ex_res.sleeps) = k - 1

C9_Witness ==
    /\ Executed
    /\ TransientText(ex_outs[1]) /\ TransientText(ex_outs[2])
    /\ UnrelatedText(ex_outs[3])
    /\ ex_res.attempts = 3

\* the positions in tip's chain whose message equals m
ExactMatches(tip, m) == { i \in 1..Len(tip) : tip[i].msg = m }

\* C10: on the rewrite path, when the remembered identity denotes no commit
\* and the log is read: if the log holds an entry whose message equals the
\* remembered message, the target is the most recent such entry; if it holds
\* none, the call ends with the not-found report and nothing is published.
C10_LocateByMessage ==
    [][ (pc = "fx_log" /\ saved_hash \notin objects /\ report' # "fixup_failed")
          => IF ExactMatches(head, saved_message) # {}
             THEN /\ pc' = "fx_tree"
                  /\ target_commit' =
                        Prefix(head, MaxOf(ExactMatches(head, saved_message)))
             ELSE /\ pc' = "idle"
                  /\ report' = "not_found"
                  /\ head' = head
      ]_vars

\* C11: every call of git_commit and fixup_commit ends by returning a text:
\* a call that has started always comes back to the caller, and whatever
\* failed on the way (retries exhausted, another non-zero exit, commit not
\* found, replay conflict) the caller gets one of the reports and never an
\* exception.
C11_AlwaysReports ==
    /\ [](pc = "idle" /\ op # "none" => report \in TextReports)
    /\ [](pc # "idle" => <>(pc = "idle"))

C11_Witness ==
    /\ pc = "idle" /\ op = "fixup_commit" /\ report = "error"
    /\ ~Rewrite(target_commit, new_tree_oid, head).ok

\* the commit a successful amend-commit worked on: the tip on the fast path,
\* the resolved target on the rewrite path
AmendTarget == IF report = "amended" THEN head_hash ELSE target_commit

\* C12: after a successful amend-commit every commit that was an ancestor of
\* the target is, with the same identity, an ancestor of the new tip, and the
\* commit in the target's place has the parent the target had.
C12_HistoryBeforeTarget ==
    (pc = "idle" /\ report \in {"amended", "edited"})
        => /\ \A a \in Ancestry(Parent(AmendTarget)) : IsAncestorOrSelf(a, head)
           /\ Len(head) >= Len(AmendTarget)
           /\ Parent(Prefix(head, Len(AmendTarget))) = Parent(AmendTarget)

C12_Witness ==
    /\ pc = "idle" /\ report = "edited"
    /\ Len(target_commit) >= 2
    /\ IsAncestorOrSelf(target_commit, pre.head)
    /\ Prefix(head, Len(target_commit)) # target_commit

\* C13: last_commit_info changes only in the step that ends a git_commit call
\* with the success report; every call that returns anything else (every
\* fixup_commit call, every failing git_commit call) returns with the memory
\* exactly as it was when the call started.
C13_MemoryFrame ==
    [][ /\ (last_commit_info' # last_commit_info)
              => (op = "git_commit" /\ pc' = "idle" /\ report' = "committed")
        /\ (pc' = "idle" /\ report' \in TextReports \ {"committed"})
              => last_commit_info' = pre'.info
      ]_vars

C13_Witness ==
    /\ pc = "idle" /\ report = "amended"
    /\ head # pre.head
    /\ last_commit_info = pre.info
    /\ last_commit_info.hash = pre.head

\* C14: a fixup_commit call that ends on the rewrite path before the publish
\* step (commit not found, git write-tree failing, fold failing) returns with
\* branch tip, staging index and object store exactly as they were when the
\* call started.
C14_UntouchedBeforePublish ==
    [][ (pc \in RewritePcs \ {"fx_publish"} /\ pc' = "idle")
          => /\ head' = pre.head
             /\ index' = pre.index
             /\ objects' = pre.objects
             /\ trees' = pre.trees
      ]_vars

\* the resolved target is a non-root commit in the chain of the tip the call
\* started with
TargetInChain ==
    /\ Len(target_commit) >= 2
    /\ IsAncestorOrSelf(target_commit, pre.head)

\* C15: after a successful rewrite whose target is a non-root commit in the
\* chain of the tip, the commit in the target's place under the published tip
\* has the staged snapshot (the index after the call's git add) as its tree,
\* and the parent, author and message of the original target.
C15_TargetRewritten ==
    (pc = "idle" /\ report = "edited" /\ TargetInChain)
        => LET T == target_commit
               Tnew == Prefix(head, Len(T))
           IN  /\ new_tree_oid = Staged(pre.index, staged)
               /\ TreeOf(Tnew) = new_tree_oid
               /\ Parent(Tnew) = Parent(T)
               /\ Last(Tnew).author = Last(T).author
               /\ Last(Tnew).msg = Last(T).msg

C15_Witness ==
    /\ pc = "idle" /\ report = "edited" /\ TargetInChain
    /\ target_commit # pre.head
    /\ TreeOf(target_commit) # new_tree_oid
    /\ Last(target_commit).author = ToolAuthor
    /\ Last(pre.head).author = UserAuthor

\* C16: whatever the attempts answer, one call of the executor ends after at
\* least 1 and at most 5 invocations; when attempt k is the first to succeed
\* and the k-1 before it failed with a transient-lock text, the executor
\* returns the result of attempt k, invokes nothing after it and raises
\* nothing.
C16_BoundedAttempts ==
    Executed =>
        /\ ex_res.attempts \in 1..MAX_RETRIES
        /\ \A k \in 1..MAX_RETRIES :
              (/\ \A j \in 1..(k - 1) : TransientText(ex_outs[j])
               /\ ex_outs[k].ok)
                  => /\ ex_res.ok
                     /\ ex_res.raised = "none"
                     /\ ex_res.index = k
                     /\ ex_res.attempts = k

C16_Witness ==
    /\ Executed
    /\ TransientText(ex_outs[1]) /\ TransientText(ex_outs[2])
    /\ TransientText(ex_outs[3]) /\ TransientText(ex_outs[4])
    /\ ex_outs[5].ok
    /\ ex_res.ok /\ ex_res.attempts = 5

\* C17: whenever git_commit returns a failure report, whichever of its three
\* backend invocations failed, the branch tip is the one the call started
\* with: no commit has been added.
C17_FailedCreateAddsNothing ==
    (pc = "idle" /\ op = "git_commit" /\ report \in {"commit_failed", "error"})
        => head = pre.head

\* C18: whenever the rewrite path has resolved its target from the remembered
\* identity, which still denotes a commit object, the target is a commit of
\* the ancestry chain of the branch tip.
C18_ResolvedTargetInChain ==
    (/\ pc \in {"fx_tree", "fx_fold"}
     /\ target_commit = saved_hash
     /\ saved_hash \in objects)
        => IsAncestorOrSelf(target_commit, head)

\* the commit c, or a replayed copy of it (same message and author, with all
\* the commits c had below it still below it), is in the chain of tip
KeptIn(c, tip) ==
    \/ IsAncestorOrSelf(c, tip)
    \/ \E i \in Len(c)..Len(tip) :
          /\ tip[i].msg = Last(c).msg
          /\ tip[i].author = Last(c).author

\* C19: when another process has added a commit to the branch after the
\* rewrite read the tip and before it publishes, that commit is reachable
\* from the branch tip after fixup_commit reports success.
C19_ConcurrentCommitKept ==
    [][ (pc = "fx_publish" /\ head # pre.head
         /\ pc' = "idle" /\ report' = "edited")
          => KeptIn(head, head')
      ]_vars

=============================================================================
